---- MODULE Spec2Model ----
(***************************************************************************)
(* A model of heimdalr/arangoDAG (dag.go): a DAG whose vertices and edges  *)
(* are documents of two ArangoDB collections.  The store is modelled by    *)
(* what the driver calls and the AQL queries of dag.go return.             *)
(***************************************************************************)
EXTENDS Bags, FiniteSets, Integers, Sequences, TLC

\* ---------------------------------------------------------------- bounds
\* Spec: the vertex keys callers use, and the largest number of edge
\* documents the edge collection is let to hold
NumKeys == 3
MaxSize == 3
\* SpecQuery: the same for the graphs a query is issued on
NumQueryKeys == 4
MaxQuerySize == 4

\* SpecConc: the callers that run AddEdge at the same time, the keys they
\* use and the edge documents the collection is let to hold
NumProcs == 2
NumConcKeys == 2
MaxConcSize == 2

Keys == 1..NumKeys
QueryKeys == 1..NumQueryKeys
ConcKeys == 1..NumConcKeys
Procs == 1..NumProcs

\* ------------------------------------------------------------ the store
VertexColl == "vertices"
EdgeColl == "edges"

\* driver.DocumentID is "<collection>/<key>"; DocumentMeta carries both
DocumentID(coll, key) == <<coll, key>>
DocumentMeta(id) == [Key |-> id[2], ID |-> id]

\* the Go zero values: "" for an id, nil for a slice and for an error
NoId == <<>>
Nil == <<>>
NoErr == "nil"

ErrNotFound == "not found"
ErrConflict == "unique constraint violated"
ErrStore == "store failure"
ErrDuplicate == "duplicate edge"
ErrSelfLoop == "self loop"
ErrLoop == "loop"

\* myEdge with a fault: the two fields exchanged
myEdgeReversed(from, to) == [From |-> to, To |-> from]

\* type myEdge struct { From string `json:"_from"`; To string `json:"_to"` }
myEdge(from, to) == [From |-> from, To |-> to]

VARIABLES
    vertices,   \* keys of the documents of the vertex collection
    edges,      \* bag of the myEdge documents of the edge collection
    op,         \* the operation of the last call that returned
    args,       \* its arguments
    err,        \* the error it returned
    out,        \* the value it returned
    calls,      \* SpecConc: per caller, where its AddEdge stands and its locals
    walker      \* SpecWalker: the goroutine of GetRootsWalker, its channels and
                \* what the consumer has received from them

vars == <<vertices, edges, op, args, err, out, calls, walker>>

\* ------------------------------------------------------- store requests
\* the edge documents as a set of (from, to) pairs
Arcs(E) == BagToSet(E)
IsArc(E, u, v) == myEdge(u, v) \in Arcs(E)
OutNeighbors(E, S) == {e.To : e \in {x \in Arcs(E) : x.From \in S}}
InNeighbors(E, S) == {e.From : e \in {x \in Arcs(E) : x.To \in S}}

\* getVertex with a fault: the id is built from the key and the document not read
getVertexUnread(V, key, fail) ==
    IF fail THEN [id |-> NoId, err |-> ErrStore]
    ELSE [id |-> DocumentID(VertexColl, key), err |-> NoErr]

\* d.vertices.ReadDocument(key): the id of the document, or an error
getVertex(V, key, fail) ==
    IF fail THEN [id |-> NoId, err |-> ErrStore]
    ELSE IF key \in V THEN [id |-> DocumentID(VertexColl, key), err |-> NoErr]
    ELSE [id |-> NoId, err |-> ErrNotFound]

\* getEdgeId with a fault: the filter compares _from with @to and _to with @from
getEdgeIdSwapped(E, srcId, dstId, fail) ==
    IF fail THEN [id |-> NoId, err |-> ErrStore]
    ELSE IF BagIn([From |-> dstId, To |-> srcId], E)
         THEN [id |-> DocumentID(EdgeColl, <<dstId[2], srcId[2]>>), err |-> NoErr]
         ELSE [id |-> NoId, err |-> NoErr]

\* FOR d IN edges FILTER d._from == @from AND d._to == @to RETURN d: the id of
\* the first document of the cursor, "" when the cursor is empty.  The key
\* the store gave the edge document is opaque; the pair stands for it.
getEdgeId(E, srcId, dstId, fail) ==
    IF fail THEN [id |-> NoId, err |-> ErrStore]
    ELSE IF BagIn(myEdge(srcId, dstId), E)
         THEN [id |-> DocumentID(EdgeColl, <<srcId[2], dstId[2]>>), err |-> NoErr]
         ELSE [id |-> NoId, err |-> NoErr]

\* BFSLayers with a fault: the search looks one hop from the start vertex only
BFSOneLayer(E, layers, visited, dstId) ==
    LET frontier == layers[Len(layers)]
        next == OutNeighbors(E, frontier) \ visited
    IN  IF dstId \in frontier \/ next = {} THEN layers ELSE Append(layers, next)

\* The frontier expansion of OUTBOUND SHORTEST_PATH: layers[i] holds the
\* vertices first discovered after i-1 hops; the expansion stops when the
\* target is discovered or the frontier has nothing new.
RECURSIVE BFSLayers(_, _, _, _)
BFSLayers(E, layers, visited, dstId) ==
    LET frontier == layers[Len(layers)]
        next == OutNeighbors(E, frontier) \ visited
    IN  IF dstId \in frontier \/ next = {}
        THEN layers
        ELSE BFSLayers(E, Append(layers, next), visited \cup next, dstId)

\* The paths the predecessor pointers can describe: each vertex of layer i
\* points to a vertex of layer i-1 it was discovered from.
RECURSIVE PathsTo(_, _, _, _)
PathsTo(E, layers, v, i) ==
    IF i = 1 THEN {<<v>>}
    ELSE UNION { {Append(p, v) : p \in PathsTo(E, layers, u, i - 1)} :
                 u \in {w \in layers[i - 1] : IsArc(E, w, v)} }

Range(s) == {s[i] : i \in 1..Len(s)}

\* ShortestPaths with a fault: a depth-first search, which returns the first path
\* it completes, whatever its length
RECURSIVE SimplePathsFrom(_, _, _)
SimplePathsFrom(E, p, dstId) ==
    IF p[Len(p)] = dstId THEN {p}
    ELSE UNION { SimplePathsFrom(E, Append(p, w), dstId) :
                 w \in OutNeighbors(E, {p[Len(p)]}) \ Range(p) }

AnyPaths(E, srcId, dstId) == SimplePathsFrom(E, <<srcId>>, dstId)

\* OUTBOUND SHORTEST_PATH @from TO @to: the vertex sequences the search can
\* return, none when the target is not discovered
ShortestPaths(E, srcId, dstId) ==
    LET layers == BFSLayers(E, <<{srcId}>>, {srcId}, dstId)
        n == Len(layers)
    IN  IF dstId \in layers[n] THEN PathsTo(E, layers, dstId, n) ELSE {}

\* what reading the cursor of a path query into a slice returns
ReadPath(found) ==
    IF found = {} THEN {[path |-> Nil, err |-> NoErr]}
    ELSE {[path |-> [i \in 1..Len(p) |-> DocumentMeta(p[i])], err |-> NoErr] : p \in found}

\* getShortestPath with a fault: the bind variables from and to exchanged
getShortestPathSwapped(E, srcId, dstId, fail) ==
    IF fail THEN {[path |-> Nil, err |-> ErrStore]}
    ELSE ReadPath(ShortestPaths(E, dstId, srcId))

\* getShortestPath with a fault: a search that reports paths of one or more
\* edges only, so none from a vertex to itself
getShortestPathNoTrivial(E, srcId, dstId, fail) ==
    IF fail THEN {[path |-> Nil, err |-> ErrStore]}
    ELSE IF srcId = dstId THEN ReadPath({})
    ELSE ReadPath(ShortestPaths(E, srcId, dstId))

\* FOR v IN OUTBOUND SHORTEST_PATH @from TO @to edges RETURN v, read into a
\* slice: the possible results.  Which of several shortest paths the store
\* returns is its choice; nil when the cursor is empty.
getShortestPath(E, srcId, dstId, fail) ==
    IF fail THEN {[path |-> Nil, err |-> ErrStore]}
    ELSE ReadPath(ShortestPaths(E, srcId, dstId))

\* ----------------------------------------------------------- operations
Return(o, a, e, r) == op' = o /\ args' = a /\ err' = e /\ out' = r

\* DAG.AddVertex: CreateDocument with the key of the payload, or with a key
\* the store generates (a key no document has)
AddVertex(key, fail) ==
    /\ IF fail THEN
            /\ Return("AddVertex", <<key>>, ErrStore, "")
            /\ UNCHANGED vertices
       ELSE IF key \in vertices THEN
            /\ Return("AddVertex", <<key>>, ErrConflict, "")
            /\ UNCHANGED vertices
       ELSE /\ vertices' = vertices \cup {key}
            /\ Return("AddVertex", <<key>>, NoErr, key)
    /\ UNCHANGED <<edges, calls, walker>>

\* the store requests of AddEdge, in the order it issues them; an input of
\* a call names the one that fails, if any
AddEdgeFaults == {"none", "readSrc", "readDst", "queryEdge", "queryPath", "createEdge"}

\* DAG.AddEdge
AddEdge(src, dst, fault) ==
    LET s == getVertex(vertices, src, fault = "readSrc")
        t == getVertex(vertices, dst, fault = "readDst")
        e == getEdgeId(edges, s.id, t.id, fault = "queryEdge")
        fails(x) == Return("AddEdge", <<src, dst>>, x, Nil) /\ UNCHANGED <<vertices, edges, calls, walker>>
    IN  IF s.err # NoErr THEN fails(s.err)
        ELSE IF t.err # NoErr THEN fails(t.err)
        ELSE IF e.err # NoErr THEN fails(e.err)
        ELSE IF e.id # NoId THEN fails(ErrDuplicate)
        ELSE \E r \in getShortestPath(edges, t.id, s.id, fault = "queryPath") :
               IF r.err # NoErr THEN fails(r.err)
               ELSE IF r.path # Nil
               THEN IF Len(r.path) = 1 THEN fails(ErrSelfLoop) ELSE fails(ErrLoop)
               ELSE IF fault = "createEdge" THEN fails(ErrStore)
               ELSE /\ BagCardinality(edges) < MaxSize
                    /\ edges' = edges (+) SetToBag({myEdge(s.id, t.id)})
                    /\ Return("AddEdge", <<src, dst>>, NoErr, Nil)
                    /\ UNCHANGED <<vertices, calls, walker>>

\* ------------------------------------------------------------- queries
IsNew == op = "NewDAG"

\* what DAG.IsEdge returns on the vertex set V and the edge documents E
isEdge(V, E, src, dst, fault) ==
    LET s == getVertex(V, src, fault = "readSrc")
        t == getVertex(V, dst, fault = "readDst")
        e == getEdgeId(E, s.id, t.id, fault = "queryEdge")
    IN  IF s.err # NoErr THEN [ok |-> FALSE, err |-> s.err]
        ELSE IF t.err # NoErr THEN [ok |-> FALSE, err |-> t.err]
        ELSE IF e.err # NoErr THEN [ok |-> FALSE, err |-> e.err]
        ELSE IF e.id = NoId THEN [ok |-> FALSE, err |-> NoErr]
        ELSE [ok |-> TRUE, err |-> NoErr]

\* DAG.IsEdge
IsEdge(src, dst, fault) ==
    /\ LET r == isEdge(vertices, edges, src, dst, fault)
       IN  Return("IsEdge", <<src, dst>>, r.err, r.ok)
    /\ UNCHANGED <<vertices, edges, calls, walker>>

\* what DAG.GetSize returns on the edge documents E: d.edges.Count
getSize(E, fail) ==
    IF fail THEN [count |-> 0, err |-> ErrStore]
    ELSE [count |-> BagCardinality(E), err |-> NoErr]

\* DAG.GetSize
GetSize(fail) ==
    /\ LET r == getSize(edges, fail)
       IN  Return("GetSize", <<>>, r.err, r.count)
    /\ UNCHANGED <<vertices, edges, calls, walker>>

\* DAG.GetShortestPath: the keys of the vertices getShortestPath returns
GetShortestPath(src, dst, fault) ==
    LET s == getVertex(vertices, src, fault = "readSrc")
        t == getVertex(vertices, dst, fault = "readDst")
        returns(x, p) == Return("GetShortestPath", <<src, dst>>, x, p)
    IN  /\ IF s.err # NoErr THEN returns(s.err, Nil)
           ELSE IF t.err # NoErr THEN returns(t.err, Nil)
           ELSE \E r \in getShortestPath(edges, s.id, t.id, fault = "queryPath") :
                  IF r.err # NoErr THEN returns(r.err, Nil)
                  ELSE IF r.path = Nil THEN returns(NoErr, Nil)
                  ELSE returns(NoErr, [i \in 1..Len(r.path) |-> r.path[i].Key])
        /\ UNCHANGED <<vertices, edges, calls, walker>>

\* the orders in which a cursor can deliver the documents of a set: the
\* store promises none
RECURSIVE Perms(_)
Perms(S) ==
    IF S = {} THEN {<<>>}
    ELSE UNION { {<<x>> \o p : p \in Perms(S \ {x})} : x \in S }

CursorFaults == {"none", "query", "read"}

\* what a loop that reads a cursor of the vertices keys into a slice
\* returns: all of them, or, when a read fails, those read before it
ReadAll(keys, fault) ==
    LET docs == [i \in 1..Len(keys) |-> DocumentMeta(DocumentID(VertexColl, keys[i]))]
    IN  IF fault = "query" THEN {[result |-> Nil, err |-> ErrStore]}
        ELSE IF fault = "read"
        THEN {[result |-> SubSeq(docs, 1, n), err |-> ErrStore] : n \in 0..Len(docs)}
        ELSE {[result |-> docs, err |-> NoErr]}

\* FILTER LENGTH(FOR vv IN 1..1 OUTBOUND v edges LIMIT 1 RETURN 1) == 0
IsLeaf(E, key) == OutNeighbors(E, {DocumentID(VertexColl, key)}) = {}
\* FILTER LENGTH(FOR vv IN 1..1 INBOUND v edges LIMIT 1 RETURN 1) == 0
IsRoot(E, key) == InNeighbors(E, {DocumentID(VertexColl, key)}) = {}

\* DAG.getLeaves: FOR v IN vertices FILTER ... RETURN v, read into a slice;
\* the possible results
getLeaves(V, E, fault) ==
    UNION { ReadAll(keys, fault) : keys \in Perms({key \in V : IsLeaf(E, key)}) }

\* getRoots with a fault: the query of getLeaves, copied with its direction
getRootsOutbound(V, E, fault) == getLeaves(V, E, fault)

\* DAG.getRoots: the same with INBOUND
getRoots(V, E, fault) ==
    UNION { ReadAll(keys, fault) : keys \in Perms({key \in V : IsRoot(E, key)}) }

\* DAG.GetLeaves
GetLeaves(fault) ==
    /\ \E r \in getLeaves(vertices, edges, fault) :
         IF r.err # NoErr THEN Return("GetLeaves", <<>>, r.err, Nil)
         ELSE IF r.result = Nil THEN Return("GetLeaves", <<>>, NoErr, Nil)
         ELSE Return("GetLeaves", <<>>, NoErr, [i \in 1..Len(r.result) |-> r.result[i].Key])
    /\ UNCHANGED <<vertices, edges, calls, walker>>

\* DAG.GetRoots
GetRoots(fault) ==
    /\ \E r \in getRoots(vertices, edges, fault) :
         IF r.err # NoErr THEN Return("GetRoots", <<>>, r.err, Nil)
         ELSE IF r.result = Nil THEN Return("GetRoots", <<>>, NoErr, Nil)
         ELSE Return("GetRoots", <<>>, NoErr, [i \in 1..Len(r.result) |-> r.result[i].Key])
    /\ UNCHANGED <<vertices, edges, calls, walker>>

\* the depth range of the traversal query of WalkAncestors: 1..10000
MinDepth == 1
MaxDepth == 10000

\* Distinct with a fault: the query returns v without DISTINCT
DistinctNone(s) == s

\* RETURN DISTINCT: every value once, at its first occurrence
RECURSIVE Distinct(_)
Distinct(s) ==
    IF s = <<>> THEN <<>>
    ELSE LET front == Distinct(SubSeq(s, 1, Len(s) - 1))
             last == s[Len(s)]
         IN  IF last \in Range(front) THEN front ELSE Append(front, last)

\* Expand with a fault: the traversal follows OUTBOUND edges
RECURSIVE ExpandOutbound(_, _, _, _)
ExpandOutbound(E, front, i, visited) ==
    IF i > Len(front) THEN {<<>>}
    ELSE LET new == OutNeighbors(E, {front[i]}) \ visited
         IN  {p \o q : p \in Perms(new), q \in ExpandOutbound(E, front, i + 1, visited \cup new)}

\* order "bfs", uniqueVertices "global".  Expand: what expanding front[i..],
\* one vertex after the other, discovers over inbound edges, in the orders
\* the store may enumerate the edges of a vertex.
RECURSIVE Expand(_, _, _, _)
Expand(E, front, i, visited) ==
    IF i > Len(front) THEN {<<>>}
    ELSE LET new == InNeighbors(E, {front[i]}) \ visited
         IN  {p \o q : p \in Perms(new), q \in Expand(E, front, i + 1, visited \cup new)}

\* the vertices the traversal emits from depth on, front being the vertices
\* at depth - 1
RECURSIVE TraverseBFS(_, _, _, _, _)
TraverseBFS(E, front, visited, depth, maxDepth) ==
    IF depth > maxDepth \/ front = <<>> THEN {<<>>}
    ELSE UNION { {next \o rest :
                  rest \in TraverseBFS(E, next, visited \cup Range(next), depth + 1, maxDepth)} :
                 next \in Expand(E, front, 1, visited) }

\* order "dfs", uniqueVertices "none": every inbound path of at most maxDepth
\* edges is followed and its last vertex emitted, a vertex before the paths
\* that extend it.  TraverseDFS: the emissions below v, v being at depth - 1;
\* DFSAlong: those of the inbound neighbours order[i..] of one vertex.
RECURSIVE TraverseDFS(_, _, _, _)
RECURSIVE DFSAlong(_, _, _, _, _)
TraverseDFS(E, v, depth, maxDepth) ==
    IF depth > maxDepth THEN {<<>>}
    ELSE UNION { DFSAlong(E, order, 1, depth, maxDepth) : order \in Perms(InNeighbors(E, {v})) }

DFSAlong(E, order, i, depth, maxDepth) ==
    IF i > Len(order) THEN {<<>>}
    ELSE {<<order[i]>> \o below \o rest :
          below \in TraverseDFS(E, order[i], depth + 1, maxDepth),
          rest \in DFSAlong(E, order, i + 1, depth, maxDepth)}

\* FOR v IN 1..maxDepth INBOUND @from edges OPTIONS {order, uniqueVertices}
\* RETURN DISTINCT v: the possible contents of the cursor
Ancestors(E, id, dfs, maxDepth) ==
    LET emitted == IF dfs THEN TraverseDFS(E, id, MinDepth, maxDepth)
                   ELSE TraverseBFS(E, <<id>>, {id}, MinDepth, maxDepth)
    IN  {[i \in 1..Len(Distinct(s)) |-> DocumentMeta(Distinct(s)[i])] : s \in emitted}

ErrVisit == "visit failed"

\* walk with a fault: the error fn returns is dropped
RECURSIVE walkIgnoring(_, _, _, _, _)
walkIgnoring(docs, i, readFail, fnFail, visited) ==
    IF readFail = i THEN [visited |-> visited, err |-> ErrStore]
    ELSE IF i > Len(docs) THEN [visited |-> visited, err |-> NoErr]
    ELSE walkIgnoring(docs, i + 1, readFail, fnFail, Append(visited, docs[i].Key))

\* The loop of WalkAncestors over the cursor docs: read number readFail fails,
\* call number fnFail of fn returns an error (0: none does).  visited: the
\* keys fn was called with, in order.
RECURSIVE walk(_, _, _, _, _)
walk(docs, i, readFail, fnFail, visited) ==
    IF readFail = i THEN [visited |-> visited, err |-> ErrStore]
    ELSE IF i > Len(docs) THEN [visited |-> visited, err |-> NoErr]
    ELSE IF fnFail = i THEN [visited |-> Append(visited, docs[i].Key), err |-> ErrVisit]
    ELSE walk(docs, i + 1, readFail, fnFail, Append(visited, docs[i].Key))

\* DAG.WalkAncestors with the depth range of the query as a parameter; which
\* read of the cursor fails is an input, and so is the argument fn: the one
\* whose call number fnFail returns an error, args[3]
WalkAncestorsTo(maxDepth, key, dfs, fault) ==
    LET s == getVertex(vertices, key, fault = "readSrc")
        returns(fnFail, x, v) == Return("WalkAncestors", <<key, dfs, fnFail>>, x, v)
    IN  /\ IF s.err # NoErr THEN returns(0, s.err, <<>>)
           ELSE IF fault = "query" THEN returns(0, ErrStore, <<>>)
           ELSE \E docs \in Ancestors(edges, s.id, dfs, maxDepth) :
                  \E readFail \in 0..(Len(docs) + 1), fnFail \in 0..Len(docs) :
                    LET w == walk(docs, 1, readFail, fnFail, <<>>)
                    IN  returns(fnFail, w.err, w.visited)
        /\ UNCHANGED <<vertices, edges, calls, walker>>

WalkAncestors(key, dfs, fault) == WalkAncestorsTo(MaxDepth, key, dfs, fault)

\* a caller that is in no call
Idle == [pc |-> "idle", src |-> 0, dst |-> 0, srcId |-> NoId, dstId |-> NoId, err |-> NoErr]

\* before GetRootsWalker is called.  pc: where the goroutine stands; cursor:
\* the keys the cursor still holds; err: the error of the query; key: var key
\* myKey; fatal: the goroutine returns after the send it is in; chanSignal: the signals in its buffer; roots, errors:
\* what the consumer has received from chanRoots and chanErrors; fetched: the
\* reads that gave a key; skipped: the keys whose read failed; cancelled: the
\* number of identifiers received when the consumer raised the signal (-1: it
\* has not)
NotStarted ==
    [pc |-> "idle", cursor |-> <<>>, err |-> NoErr, key |-> 0, fatal |-> FALSE, chanSignal |-> 0,
     rootsClosed |-> FALSE, errorsClosed |-> FALSE, roots |-> <<>>, errors |-> 0,
     fetched |-> 0, skipped |-> {}, cancelled |-> -1]

Init ==
    /\ vertices = {}
    /\ edges = EmptyBag
    /\ op = "NewDAG"
    /\ args = <<>>
    /\ err = NoErr
    /\ out = Nil
    /\ calls = [p \in Procs |-> Idle]
    /\ walker = NotStarted

Next ==
    \/ \E key \in Keys, fail \in BOOLEAN : AddVertex(key, fail)
    \/ \E src \in Keys, dst \in Keys, fault \in AddEdgeFaults : AddEdge(src, dst, fault)

Spec == Init /\ [][Next]_vars

\* ------------------------------------------- AddEdge calls that overlap
\* AddEdge takes no lock and opens no transaction: its store requests are
\* separate requests, and a caller's requests interleave with the other
\* callers'.  One step is one store request and what AddEdge does with the
\* answer up to its next request.
Finish(p, e) ==
    calls' = [calls EXCEPT ![p] = [@ EXCEPT !.pc = "done", !.err = e,
                                             !.srcId = NoId, !.dstId = NoId]]
Goto(p, label) == calls' = [calls EXCEPT ![p].pc = label]

\* a caller enters AddEdge(src, dst)
Call(p, src, dst) ==
    /\ calls[p].pc \in {"idle", "done"}
    /\ calls' = [calls EXCEPT ![p] = [Idle EXCEPT !.pc = "readSrc", !.src = src, !.dst = dst]]
    /\ UNCHANGED <<vertices, edges, op, args, err, out, walker>>

\* srcId, errSrc := d.getVertex(src, nil)
ReadSrc(p, fail) ==
    /\ calls[p].pc = "readSrc"
    /\ LET s == getVertex(vertices, calls[p].src, fail)
       IN  IF s.err # NoErr THEN Finish(p, s.err)
           ELSE calls' = [calls EXCEPT ![p].srcId = s.id, ![p].pc = "readDst"]
    /\ UNCHANGED <<vertices, edges, op, args, err, out, walker>>

\* dstId, errDst := d.getVertex(dst, nil)
ReadDst(p, fail) ==
    /\ calls[p].pc = "readDst"
    /\ LET t == getVertex(vertices, calls[p].dst, fail)
       IN  IF t.err # NoErr THEN Finish(p, t.err)
           ELSE calls' = [calls EXCEPT ![p].dstId = t.id, ![p].pc = "queryEdge"]
    /\ UNCHANGED <<vertices, edges, op, args, err, out, walker>>

\* id, errEdge := d.getEdgeId(srcId, dstId)
QueryEdge(p, fail) ==
    /\ calls[p].pc = "queryEdge"
    /\ LET e == getEdgeId(edges, calls[p].srcId, calls[p].dstId, fail)
       IN  IF e.err # NoErr THEN Finish(p, e.err)
           ELSE IF e.id # NoId THEN Finish(p, ErrDuplicate)
           ELSE Goto(p, "queryPath")
    /\ UNCHANGED <<vertices, edges, op, args, err, out, walker>>

\* path, errSrc := d.getShortestPath(dstId, srcId)
QueryPath(p, fail) ==
    /\ calls[p].pc = "queryPath"
    /\ \E r \in getShortestPath(edges, calls[p].dstId, calls[p].srcId, fail) :
         IF r.err # NoErr THEN Finish(p, r.err)
         ELSE IF r.path # Nil
         THEN IF Len(r.path) = 1 THEN Finish(p, ErrSelfLoop) ELSE Finish(p, ErrLoop)
         ELSE Goto(p, "createEdge")
    /\ UNCHANGED <<vertices, edges, op, args, err, out, walker>>

\* _, err := d.edges.CreateDocument(ctx, myEdge{srcId, dstId})
CreateEdge(p, fail) ==
    /\ calls[p].pc = "createEdge"
    /\ IF fail THEN Finish(p, ErrStore) /\ UNCHANGED edges
       ELSE /\ BagCardinality(edges) < MaxConcSize
            /\ edges' = edges (+) SetToBag({myEdge(calls[p].srcId, calls[p].dstId)})
            /\ Finish(p, NoErr)
    /\ UNCHANGED <<vertices, op, args, err, out, walker>>

NextConc ==
    \/ \E key \in ConcKeys, fail \in BOOLEAN : AddVertex(key, fail)
    \/ \E p \in Procs, src \in ConcKeys, dst \in ConcKeys : Call(p, src, dst)
    \/ \E p \in Procs, fail \in BOOLEAN : ReadSrc(p, fail)
    \/ \E p \in Procs, fail \in BOOLEAN : ReadDst(p, fail)
    \/ \E p \in Procs, fail \in BOOLEAN : QueryEdge(p, fail)
    \/ \E p \in Procs, fail \in BOOLEAN : QueryPath(p, fail)
    \/ \E p \in Procs, fail \in BOOLEAN : CreateEdge(p, fail)

SpecConc == Init /\ [][NextConc]_vars

\* ------------------------------------------------- reachability, for the claims
\* a walk of exactly n edges leads from u to v
RECURSIVE HasWalk(_, _, _, _)
HasWalk(E, u, v, n) ==
    IF n = 0 THEN u = v
    ELSE \E w \in OutNeighbors(E, {u}) : HasWalk(E, w, v, n - 1)

Nodes(E) == {e.From : e \in Arcs(E)} \cup {e.To : e \in Arcs(E)}
\* v is reachable from u by one or more edges
Reachable(E, u, v) == \E n \in 1..Cardinality(Nodes(E)) : HasWalk(E, u, v, n)
Acyclic(E) == \A v \in Nodes(E) : ~Reachable(E, v, v)
NoDuplicates(E) == \A e \in BagToSet(E) : CopiesIn(e, E) = 1
EndpointsExist(V, E) == \A e \in Arcs(E) : e.From[2] \in V /\ e.To[2] \in V

Id(key) == DocumentID(VertexColl, key)

\* --------------------------------------------- claims on AddVertex and AddEdge
\* A step of Spec is one call; op', args' and err' name it and its result.
\* err' # ErrStore: no store request of the call failed.

\* C1: in every state reached by AddVertex and AddEdge calls executed one at
\* a time from the empty graph, no vertex is reachable from itself by one or
\* more stored edges.
C1_Acyclic == Acyclic(edges)

\* an AddEdge has succeeded and left a chain of two edges
C1_Witness ==
    /\ op = "AddEdge" /\ err = NoErr
    /\ \E e1 \in Arcs(edges), e2 \in Arcs(edges) : e1.To = e2.From

\* C2: AddEdge calls that run at the same time on overlapping vertices are
\* serialized: under every interleaving of their existence checks, duplicate
\* checks, cycle checks and inserts, the edge set never holds a cycle (one
\* that neither insertion would create alone).
C2_NoJointCycle == \A v \in Nodes(edges) : ~Reachable(edges, v, v)

\* C3: every ordered pair is stored at most once, and an AddEdge(from, to)
\* issued while the edge (from, to) is stored fails with the duplicate-edge
\* error and stores nothing.
C3_NoDuplicates ==
    /\ [](NoDuplicates(edges))
    /\ [][\A src \in Keys, dst \in Keys :
            (/\ op' = "AddEdge" /\ args' = <<src, dst>> /\ err' # ErrStore
             /\ IsArc(edges, Id(src), Id(dst)))
            => (err' = ErrDuplicate /\ edges' = edges)]_vars

\* the second AddEdge of a stored pair has failed as a duplicate
C3_Witness ==
    /\ op = "AddEdge" /\ err = ErrDuplicate
    /\ CopiesIn(myEdge(Id(args[1]), Id(args[2])), edges) = 1

\* C4: for every existing vertex x, in every reachable graph, AddEdge(x, x)
\* fails with the self-loop error, which is neither the cycle error nor the
\* duplicate error, and leaves the edge set unchanged.
C4_SelfLoop ==
    [][\A x \in Keys :
         (op' = "AddEdge" /\ args' = <<x, x>> /\ err' # ErrStore /\ x \in vertices)
         => (/\ err' = ErrSelfLoop
             /\ err' \notin {ErrLoop, ErrDuplicate}
             /\ edges' = edges)]_vars

\* AddEdge(x, x) has failed as a self loop on a graph that has edges at x
C4_Witness ==
    /\ op = "AddEdge" /\ err = ErrSelfLoop /\ args[1] = args[2]
    /\ Id(args[1]) \in Nodes(edges)

\* C5: for existing vertices from # to with no edge (from, to), when a path of
\* one or more edges leads from to to from, AddEdge(from, to) fails with the
\* cycle error and leaves the edge set unchanged.
C5_CycleRejected ==
    [][\A src \in Keys, dst \in Keys :
         (/\ op' = "AddEdge" /\ args' = <<src, dst>> /\ err' # ErrStore
          /\ src \in vertices /\ dst \in vertices /\ src # dst
          /\ ~IsArc(edges, Id(src), Id(dst))
          /\ Reachable(edges, Id(dst), Id(src)))
         => (err' = ErrLoop /\ edges' = edges)]_vars

\* after A->B and B->C, AddEdge(C, A) has failed with the cycle error
C5_Witness ==
    /\ op = "AddEdge" /\ err = ErrLoop
    /\ \E b \in Keys \ {args[1], args[2]} :
         /\ IsArc(edges, Id(args[2]), Id(b))
         /\ IsArc(edges, Id(b), Id(args[1]))
         /\ ~IsArc(edges, Id(args[2]), Id(args[1]))

\* C6: AddEdge(from, to) fails with the not-found error when from or to is not
\* an existing vertex, whatever the duplicate or cycle check would say, and
\* stores nothing; so both endpoints of every stored edge are vertices.
C6_NotFound ==
    /\ [](EndpointsExist(vertices, edges))
    /\ [][(/\ op' = "AddEdge" /\ err' # ErrStore
           /\ (args'[1] \notin vertices \/ args'[2] \notin vertices))
          => (err' = ErrNotFound /\ edges' = edges /\ vertices' = vertices)]_vars

\* AddEdge(x, x) on a missing x has failed as not found (not as a self loop)
\* while the graph holds edges
C6_Witness ==
    /\ op = "AddEdge" /\ err = ErrNotFound
    /\ args[1] = args[2] /\ args[1] \notin vertices
    /\ edges # EmptyBag

\* C7: absent store failures, AddEdge(from, to) succeeds if and only if both
\* vertices exist, from # to, (from, to) is not stored and from is not
\* reachable from to; on success the edge set is the old one plus (from, to),
\* GetSize grows by one, IsEdge(from, to) is true and the vertex set is unchanged.
C7_ExactAdmission ==
    [][(op' = "AddEdge" /\ err' # ErrStore) =>
        LET src == args'[1]
            dst == args'[2]
            admissible ==
                /\ src \in vertices /\ dst \in vertices /\ src # dst
                /\ ~IsArc(edges, Id(src), Id(dst))
                /\ ~Reachable(edges, Id(dst), Id(src))
        IN  /\ (err' = NoErr) <=> admissible
            /\ (err' = NoErr) =>
                 /\ edges' = edges (+) SetToBag({[From |-> Id(src), To |-> Id(dst)]})
                 /\ getSize(edges', FALSE).count = getSize(edges, FALSE).count + 1
                 /\ ~isEdge(vertices, edges, src, dst, "none").ok
                 /\ isEdge(vertices', edges', src, dst, "none").ok
                 /\ vertices' = vertices
            /\ (err' # NoErr) => (edges' = edges /\ vertices' = vertices)]_vars

\* AddEdge(A, C) has succeeded on a graph that holds A->B and B->C
C7_Witness ==
    /\ op = "AddEdge" /\ err = NoErr
    /\ \E b \in Keys \ {args[1], args[2]} :
         /\ IsArc(edges, Id(args[1]), Id(b))
         /\ IsArc(edges, Id(b), Id(args[2]))
         /\ IsArc(edges, Id(args[1]), Id(args[2]))

\* ------------------------------------------- one query on a stored graph
\* the sets of at most k elements of S
RECURSIVE AtMost(_, _)
AtMost(S, k) ==
    IF k = 0 THEN {{}}
    ELSE LET smaller == AtMost(S, k - 1)
         IN  smaller \cup {T \cup {x} : T \in smaller, x \in S}

ArcsOver(V) ==
    {myEdge(DocumentID(VertexColl, u), DocumentID(VertexColl, v)) : u \in V, v \in V}

\* NewDAG opens collections that exist: they hold a graph earlier AddVertex
\* and AddEdge calls stored (acyclic, no edge twice, edges between vertices)
InitQuery ==
    /\ vertices \in SUBSET QueryKeys
    /\ edges \in {SetToBag(A) : A \in {B \in AtMost(ArcsOver(vertices), MaxQuerySize) : Acyclic(SetToBag(B))}}
    /\ op = "NewDAG"
    /\ args = <<>>
    /\ err = NoErr
    /\ out = Nil
    /\ calls = [p \in Procs |-> Idle]
    /\ walker = NotStarted

\* a behaviour of SpecQuery is one query on such a graph
NextQuery ==
    \/ \E src \in QueryKeys, dst \in QueryKeys, fault \in {"none", "readSrc", "readDst", "queryEdge"} :
         IsNew /\ IsEdge(src, dst, fault)
    \/ \E fail \in BOOLEAN : IsNew /\ GetSize(fail)
    \/ \E src \in QueryKeys, dst \in QueryKeys, fault \in {"none", "readSrc", "readDst", "queryPath"} :
         IsNew /\ GetShortestPath(src, dst, fault)
    \/ \E fault \in CursorFaults : IsNew /\ GetLeaves(fault)
    \/ \E fault \in CursorFaults : IsNew /\ GetRoots(fault)
    \/ \E key \in QueryKeys, dfs \in BOOLEAN, fault \in {"none", "readSrc", "query"} :
         IsNew /\ WalkAncestors(key, dfs, fault)

SpecQuery == InitQuery /\ [][NextQuery]_vars

\* ----------------------------------------------------- claims on the queries
\* a walk of at most n edges leads from u to v
WalkWithin(E, u, v, n) == \E k \in 0..n : HasWalk(E, u, v, k)

\* C8: GetShortestPath(src, dst) on existing vertices returns a vertex
\* sequence that starts at src, ends at dst, follows a stored edge at every
\* step and has the fewest hops of all paths from src to dst; it returns nil
\* exactly when dst is unreachable from src.
C8_ShortestPath ==
    (op = "GetShortestPath" /\ err = NoErr) =>
        LET src == args[1]
            dst == args[2]
            n == Len(out)
        IN  /\ src \in vertices /\ dst \in vertices
            /\ (out = Nil) <=> ~WalkWithin(edges, Id(src), Id(dst), Cardinality(vertices))
            /\ (out # Nil) =>
                 /\ out[1] = src /\ out[n] = dst
                 /\ \A i \in 1..(n - 1) : [From |-> Id(out[i]), To |-> Id(out[i + 1])] \in Arcs(edges)
                 /\ n >= 2 => ~WalkWithin(edges, Id(src), Id(dst), n - 2)

\* the diamond A->B->D, A->C->D
Diamond(a, b, c, d) ==
    /\ Cardinality({a, b, c, d}) = 4
    /\ Arcs(edges) = {myEdge(Id(a), Id(b)), myEdge(Id(b), Id(d)),
                      myEdge(Id(a), Id(c)), myEdge(Id(c), Id(d))}

\* on the diamond GetShortestPath(A, D) has returned a path of 3 vertices
C8_Witness ==
    /\ op = "GetShortestPath" /\ err = NoErr /\ Len(out) = 3
    /\ \E b \in vertices, c \in vertices : Diamond(args[1], b, c, args[2])

\* C9: GetRoots returns exactly the vertices with no inbound edge and
\* GetLeaves exactly those with no outbound edge, each once.
C9_RootsLeaves ==
    /\ (op = "GetRoots" /\ err = NoErr) =>
         /\ Range(out) = {v \in vertices : \A e \in Arcs(edges) : e.To # Id(v)}
         /\ Len(out) = Cardinality(Range(out))
    /\ (op = "GetLeaves" /\ err = NoErr) =>
         /\ Range(out) = {v \in vertices : \A e \in Arcs(edges) : e.From # Id(v)}
         /\ Len(out) = Cardinality(Range(out))

\* on A->B, A->C, with an isolated vertex beside, GetRoots has returned A and
\* the isolated vertex
C9_Witness ==
    /\ op = "GetRoots" /\ err = NoErr
    /\ \E a \in vertices, b \in vertices, c \in vertices, i \in vertices :
         /\ Cardinality({a, b, c, i}) = 4
         /\ Arcs(edges) = {myEdge(Id(a), Id(b)), myEdge(Id(a), Id(c))}
         /\ Range(out) = {a, i} /\ Len(out) = 2

\* C10: WalkAncestors(v, BFS) on an existing vertex calls visit exactly once for
\* each vertex from which v is reachable by one or more edges, and never for v
\* or for a vertex that is no ancestor.
C10_WalkBFS ==
    (op = "WalkAncestors" /\ err = NoErr /\ args[2] = FALSE) =>
        /\ args[1] \in vertices
        /\ Range(out) = {u \in vertices : Reachable(edges, Id(u), Id(args[1]))}
        /\ Len(out) = Cardinality(Range(out))
        /\ args[1] \notin Range(out)

\* on the diamond the walk from D has visited A, B and C, last of all A
C10_Witness ==
    /\ op = "WalkAncestors" /\ err = NoErr /\ args[2] = FALSE
    /\ Len(out) = 3
    /\ \E b \in vertices, c \in vertices :
         Diamond(out[3], b, c, args[1]) /\ Range(out) = {out[3], b, c}

\* ------------------------------------------------ claims on the DFS walk
\* the paths of one or more edges that extend p and end in v
RECURSIVE PathsBetween(_, _, _)
PathsBetween(E, p, v) ==
    (IF Len(p) > 1 /\ p[Len(p)] = v THEN {p} ELSE {})
    \cup UNION { PathsBetween(E, Append(p, w), v) :
                 w \in OutNeighbors(E, {p[Len(p)]}) \ Range(p) }

\* how often x occurs in s
Count(s, x) == Cardinality({i \in 1..Len(s) : s[i] = x})

\* C11 as stated: WalkAncestors(v, DFS) is not deduplicated: visit is invoked
\* more than once for an ancestor that reaches v over two or more distinct
\* paths (from D of the diamond, A twice), and at least once for every
\* ancestor.
C11_NotDeduplicated ==
    (op = "WalkAncestors" /\ err = NoErr /\ args[2] = TRUE) =>
        \A u \in vertices :
            LET paths == PathsBetween(edges, <<Id(u)>>, Id(args[1]))
            IN  /\ paths # {} => Count(out, u) >= 1
                /\ Cardinality(paths) >= 2 => Count(out, u) >= 2

\* C11 amended: WalkAncestors(v, DFS) calls visit exactly once for every
\* ancestor of v, however many paths lead from it to v, and never for v or a
\* vertex that is no ancestor: the query returns DISTINCT vertices.
C11_WalkDFS ==
    (op = "WalkAncestors" /\ err = NoErr /\ args[2] = TRUE) =>
        /\ \A u \in vertices :
             Count(out, u) = IF PathsBetween(edges, <<Id(u)>>, Id(args[1])) # {} THEN 1 ELSE 0
        /\ Range(out) \subseteq vertices \ {args[1]}

\* depth first on the diamond, from D: one parent of D, then A, then the other
\* parent, and A not a second time
C11_Witness ==
    /\ op = "WalkAncestors" /\ err = NoErr /\ args[2] = TRUE
    /\ Len(out) = 3
    /\ Diamond(out[2], out[1], out[3], args[1])

\* C16: when call number k of visit returns an error, WalkAncestors has made
\* no call after it and returns that error; it returns success only when no
\* call of visit returned an error.
C16_VisitorFailure ==
    (op = "WalkAncestors") =>
        LET k == args[3]
        IN  /\ (k > 0 /\ Len(out) >= k) => (Len(out) = k /\ err = ErrVisit)
            /\ err = ErrVisit => (k > 0 /\ Len(out) = k)
            /\ err = NoErr => (k = 0 \/ Len(out) < k)

\* on the diamond the second call of visit has failed: the walk from D has
\* stopped after two of the three ancestors and returned the error
C16_Witness ==
    /\ op = "WalkAncestors" /\ err = ErrVisit
    /\ args[3] = 2 /\ Len(out) = 2
    /\ \E a \in vertices, b \in vertices, c \in vertices : Diamond(a, b, c, args[1])

\* ------------------------------------------- claims on concurrent AddEdge
\* C19: the duplicate check and the insert of AddEdge are atomic: of two
\* AddEdge(a, b) calls that run at the same time not both succeed, and the
\* edge (a, b) is never stored twice.
C19_AtomicInsert ==
    /\ \A p \in Procs : \A q \in Procs \ {p} :
         ~ /\ calls[p].pc = "done" /\ calls[q].pc = "done"
           /\ calls[p].src = calls[q].src /\ calls[p].dst = calls[q].dst
           /\ calls[p].err = NoErr /\ calls[q].err = NoErr
    /\ \A e \in Arcs(edges) : CopiesIn(e, edges) = 1

\* ------------------------------------- roots and leaves of a graph as built
\* sequential calls of AddVertex and AddEdge, and of GetRoots and GetLeaves
\* between them
NextRoots ==
    \/ \E key \in Keys, fail \in BOOLEAN : AddVertex(key, fail)
    \/ \E src \in Keys, dst \in Keys, fault \in AddEdgeFaults : AddEdge(src, dst, fault)
    \/ \E fault \in CursorFaults : GetRoots(fault)
    \/ \E fault \in CursorFaults : GetLeaves(fault)

SpecRoots == Init /\ [][NextRoots]_vars

\* C20: on a graph with at least one vertex that sequential AddVertex and
\* AddEdge calls have built, GetRoots and GetLeaves return at least one vertex
\* each, and every vertex is a returned root or has one among its ancestors.
C20_RootsExist ==
    /\ (op = "GetRoots" /\ err = NoErr /\ vertices # {}) =>
         /\ out # Nil
         /\ \A v \in vertices :
              \E r \in Range(out) : r = v \/ Reachable(edges, Id(r), Id(v))
    /\ (op = "GetLeaves" /\ err = NoErr /\ vertices # {}) => out # Nil

\* GetRoots has returned the one root of a chain A->B->C that the calls built
C20_Witness ==
    /\ op = "GetRoots" /\ err = NoErr /\ Len(out) = 1
    /\ \E b \in vertices, c \in vertices :
         /\ Cardinality({out[1], b, c}) = 3
         /\ Arcs(edges) = {myEdge(Id(out[1]), Id(b)), myEdge(Id(b), Id(c))}

\* ------------------------------------------------- the depth of the walk
\* the depth range of the traversal, 1..10000 in the query, scaled to the
\* graphs of SpecDepth
DepthCeiling == 2

WalkAncestorsBounded(key, dfs, fault) == WalkAncestorsTo(DepthCeiling, key, dfs, fault)

NextDepth ==
    \E key \in QueryKeys, dfs \in BOOLEAN, fault \in {"none", "readSrc", "query"} :
        IsNew /\ WalkAncestorsBounded(key, dfs, fault)

\* one walk, with the scaled depth range, on a stored graph
SpecDepth == InitQuery /\ [][NextDepth]_vars

\* C17: when v has an ancestor that reaches v only over chains of more edges
\* than the depth range of the traversal allows, WalkAncestors returns an
\* error and not success.
C17_DepthExceeded ==
    (/\ op = "WalkAncestors"
     /\ \E u \in vertices : /\ Reachable(edges, Id(u), Id(args[1]))
                            /\ ~WalkWithin(edges, Id(u), Id(args[1]), DepthCeiling)) =>
        err # NoErr

\* ---------------------------------------------------------- GetRootsWalker
NumWalkKeys == 3
MaxWalkSize == 2
WalkKeys == 1..NumWalkKeys

\* chanSignal := make(chan bool, 1)
SignalCap == 1

\* a step of the goroutine or of the consumer: nothing but walker changes
Becomes(w) ==
    /\ walker' = w
    /\ UNCHANGED <<vertices, edges, op, args, err, out, calls>>

\* GetRootsWalker makes the three channels, starts the goroutine and returns
GetRootsWalker ==
    /\ walker.pc = "idle"
    /\ Becomes([walker EXCEPT !.pc = "query"])

\* RootsCursor with a fault: the query has no FILTER
RootsCursorAll(V, E) == Perms(V)

\* the cursors the query of the goroutine can return: the vertices with no
\* inbound edge, in an order the store chooses
RootsCursor(V, E) == Perms({key \in V : IsRoot(E, key)})

\* if err != nil { chanErrors <- err; return }
QueryFailed(w) == [w EXCEPT !.pc = "sendErr", !.err = ErrStore, !.fatal = TRUE]

\* cursor, err := d.db.Query(ctx, query, bindVars)
WalkerQuery(fail) ==
    /\ walker.pc = "query"
    /\ IF fail THEN Becomes(QueryFailed(walker))
       ELSE \E docs \in RootsCursor(vertices, edges) :
              Becomes([walker EXCEPT !.pc = "read", !.cursor = docs])

\* ReadFailed with a fault: the goroutine returns after reporting the error
ReadFailedFatal(w) == [w EXCEPT !.pc = "sendErr", !.fatal = TRUE]

\* if errRead != nil { chanErrors <- errRead; continue }
ReadFailed(w) == [w EXCEPT !.pc = "sendErr", !.fatal = FALSE]

\* _, errRead := cursor.ReadDocument(ctx, &key): no more documents, a document
\* that cannot be read (the cursor moves past it), or the next key
WalkerRead(fail) ==
    /\ walker.pc = "read"
    /\ IF walker.cursor = <<>> THEN ~fail /\ Becomes([walker EXCEPT !.pc = "closeRoots"])
       ELSE LET doc == Head(walker.cursor)
                rest == [walker EXCEPT !.cursor = Tail(walker.cursor)]
            IN  IF fail THEN Becomes(ReadFailed([rest EXCEPT !.skipped = @ \cup {doc}]))
                ELSE Becomes([rest EXCEPT !.pc = "select", !.key = doc, !.fetched = @ + 1])

\* SelectDefault with a fault: the send does not wait for a receiver
SelectDefaultNoWait(w) == [w EXCEPT !.pc = "read"]

\* default: chanRoots <- key.Key, on a channel without buffer: the goroutine
\* waits in the send until the consumer receives
SelectDefault(w) == [w EXCEPT !.pc = "sendRoot"]

\* select { case <-chanSignal: return; default: ... }
WalkerSelect ==
    /\ walker.pc = "select"
    /\ IF walker.chanSignal > 0
       THEN Becomes([walker EXCEPT !.pc = "closeRoots", !.chanSignal = @ - 1])
       ELSE Becomes(SelectDefault(walker))

\* defer close(chanRoots), the later defer, runs first
CloseRoots ==
    /\ walker.pc = "closeRoots"
    /\ Becomes([walker EXCEPT !.pc = "closeErrors", !.rootsClosed = TRUE])

\* defer close(chanErrors)
CloseErrors ==
    /\ walker.pc = "closeErrors"
    /\ Becomes([walker EXCEPT !.pc = "done", !.errorsClosed = TRUE])

\* the consumer receives from chanRoots: the send of the goroutine completes
ReceiveRoot ==
    /\ walker.pc = "sendRoot"
    /\ Becomes([walker EXCEPT !.pc = "read", !.roots = Append(@, walker.key)])

\* the consumer receives from chanErrors: the send of the goroutine completes,
\* and it returns or continues
ReceiveError ==
    /\ walker.pc = "sendErr"
    /\ Becomes([walker EXCEPT !.pc = IF walker.fatal THEN "closeRoots" ELSE "read",
                              !.errors = @ + 1])

\* the consumer raises the signal: chanSignal <- true, once
Cancel ==
    /\ walker.pc # "idle"
    /\ walker.cancelled = -1
    /\ walker.chanSignal < SignalCap
    /\ Becomes([walker EXCEPT !.chanSignal = @ + 1, !.cancelled = Len(walker.roots)])

\* the graph GetRootsWalker is called on: one earlier calls stored
InitWalker ==
    /\ vertices \in SUBSET WalkKeys
    /\ edges \in {SetToBag(A) : A \in {B \in AtMost(ArcsOver(vertices), MaxWalkSize) : Acyclic(SetToBag(B))}}
    /\ op = "NewDAG"
    /\ args = <<>>
    /\ err = NoErr
    /\ out = Nil
    /\ calls = [p \in Procs |-> Idle]
    /\ walker = NotStarted

\* the steps of the goroutine
Goroutine ==
    \/ \E fail \in BOOLEAN : WalkerQuery(fail)
    \/ \E fail \in BOOLEAN : WalkerRead(fail)
    \/ WalkerSelect
    \/ CloseRoots
    \/ CloseErrors

NextWalker ==
    \/ GetRootsWalker
    \/ \E fail \in BOOLEAN : WalkerQuery(fail)
    \/ \E fail \in BOOLEAN : WalkerRead(fail)
    \/ WalkerSelect
    \/ CloseRoots
    \/ CloseErrors
    \/ ReceiveRoot
    \/ ReceiveError
    \/ Cancel

SpecWalker == InitWalker /\ [][NextWalker]_vars

\* a started goroutine gets to run whenever it can take a step, and the
\* consumer is one that keeps receiving from both channels
SpecWalkerFair ==
    /\ SpecWalker
    /\ WF_vars(GetRootsWalker)
    /\ WF_vars(Goroutine)
    /\ WF_vars(ReceiveRoot)
    /\ WF_vars(ReceiveError)

\* ------------------------------------------------- claims on GetRootsWalker
\* no request of the goroutine to the store has failed
NoStoreFailure == walker.err = NoErr /\ walker.skipped = {}

\* C12: once the consumer has received one identifier and then raised the
\* signal, no further identifier and no error is delivered and both channels
\* get closed, whatever the interleaving: so the goroutine never stands in the
\* send of a further identifier, from where it either delivers it or waits for
\* ever with the channels open.
C12_CancelStops ==
    (walker.cancelled = 1 /\ NoStoreFailure) =>
        /\ Len(walker.roots) = 1
        /\ walker.errors = 0
        /\ walker.pc # "sendRoot"

\* the vertices with no inbound edge
RootKeys == {v \in vertices : \A e \in Arcs(edges) : e.To # Id(v)}

\* C13: no identifier is ever delivered twice, and none that is no root; when
\* the consumer keeps receiving and never cancels and no store request fails,
\* the goroutine comes to close both channels, and it closes them only after
\* it has delivered every root.
C13_Complete ==
    /\ [](/\ Len(walker.roots) = Cardinality(Range(walker.roots))
          /\ Range(walker.roots) \subseteq RootKeys
          /\ (walker.rootsClosed /\ walker.cancelled = -1 /\ NoStoreFailure) =>
                 Range(walker.roots) = RootKeys /\ walker.errors = 0)
    /\ (walker.pc = "query") ~>
           \/ walker.rootsClosed /\ walker.errorsClosed
           \/ walker.cancelled # -1
           \/ ~NoStoreFailure

\* three roots have been delivered and both channels closed, with no signal
\* and no store failure
C13_Witness ==
    /\ walker.rootsClosed /\ walker.errorsClosed
    /\ walker.cancelled = -1 /\ NoStoreFailure
    /\ Len(walker.roots) = 3

\* C14: when the query of the goroutine fails to start, no identifier is ever
\* delivered and both channels are closed at once: the goroutine goes on to
\* its closes and never waits for an action of the consumer.
C14_ClosesAtOnce ==
    walker.err # NoErr =>
        /\ walker.roots = <<>>
        /\ walker.pc \in {"closeRoots", "closeErrors", "done"}

\* C15: a read of the cursor that fails on one item is not fatal: when the
\* consumer keeps receiving and never cancels, the goroutine comes to close
\* both channels, and by then the consumer has received one error for each
\* such item and every root but these items.
C15_ReadFailure ==
    /\ [](/\ walker.skipped # {} => walker.err = NoErr
          /\ (walker.rootsClosed /\ walker.cancelled = -1 /\ walker.err = NoErr) =>
               /\ Range(walker.roots) = RootKeys \ walker.skipped
               /\ walker.errors = Cardinality(walker.skipped))
    /\ (walker.skipped # {}) ~>
           \/ walker.rootsClosed /\ walker.errorsClosed
           \/ walker.cancelled # -1

\* of three roots one could not be read: the consumer has received one error
\* and the two other roots, and both channels are closed
C15_Witness ==
    /\ walker.rootsClosed /\ walker.errorsClosed /\ walker.cancelled = -1
    /\ Cardinality(RootKeys) = 3
    /\ Cardinality(walker.skipped) = 1 /\ walker.errors = 1
    /\ Len(walker.roots) = 2

\* C18: the goroutine has read from the cursor at most one identifier that
\* the consumer has not received, so it reads the next one only after the
\* consumer has received the one before.
C18_Backpressure ==
    /\ Len(walker.roots) <= walker.fetched
    /\ walker.fetched <= Len(walker.roots) + 1

\* the second identifier is read and waits in the send, the first has been
\* received, a third root is still in the cursor
C18_Witness ==
    /\ walker.pc = "sendRoot"
    /\ walker.fetched = 2 /\ Len(walker.roots) = 1
    /\ walker.cursor # <<>>

====
